---- MODULE Spec2Model ----
(***************************************************************************)
(* Model of the ChainFudAgent runtime (src/src/core/runtime.rs), its agent *)
(* (src/src/core/agent.rs) and its memory store (src/src/memory.rs).       *)
(*                                                                         *)
(* Time is wall-clock time in milliseconds.  Every method of Runtime is a  *)
(* set-valued operator: it maps the state before the call to the set of    *)
(* states the call can end in, one per outcome of the external calls it    *)
(* awaits (their results and their latencies) and of its random choices.   *)
(* The operators are written in the order of the source's statements.      *)
(***************************************************************************)
EXTENDS Integers, Sequences, FiniteSets, TLC

VARIABLES
    agents,                   \* Runtime.agents: Vec<Agent>
    memory,                   \* Runtime.memory: Memory
    processed_tweets,         \* Runtime.processed_tweets: HashSet<String>
    cached_user_id,           \* Runtime.cached_user_id: Option<u64>
    last_notification_check,  \* Runtime.last_notification_check: Option<DateTime>
    last_tweet_time,          \* Runtime.last_tweet_time: Option<DateTime>
    recent_phrases,           \* Runtime.recent_phrases: HashSet<String>
    character,                \* Runtime.character_config.name
    clock,                    \* the wall clock (Utc::now()), in ms
    memory_file,              \* ./storage/memory.json: Option<Memory>
    processed_file,           \* storage/processed_tweets.json: Option<set of ids>
    env,                      \* what the collaborators can answer, and how often they may fail
    status,                   \* "new", "running", "panicked" or "exited"
    events,                   \* what the latest operation did, in order
    hist                      \* the last submissions, fetches and cycle starts

vars == <<agents, memory, processed_tweets, cached_user_id, last_notification_check,
          last_tweet_time, recent_phrases, character, clock, memory_file,
          processed_file, env, status, events, hist>>

(***************************************************************************)
(* Option<T> is a set with at most one element.                            *)
(***************************************************************************)
None == {}
Some(x) == {x}
IsSome(o) == o # {}
Unwrap(o) == CHOOSE x \in o : TRUE

Min(a, b) == IF a <= b THEN a ELSE b
Range(f) == {f[i] : i \in DOMAIN f}
\* HashMap::get: the count of a key, 0 when the key is absent
Count(map, k) == IF k \in DOMAIN map THEN map[k] ELSE 0
\* *map.entry(k).or_insert(0) += 1
Increment(map, k, cap) ==
    [x \in DOMAIN map \cup {k} |-> IF x = k THEN Min(Count(map, k) + 1, cap) ELSE map[x]]

(***************************************************************************)
(* Durations of the source, in ms.                                         *)
(***************************************************************************)
SECOND == 1000
MINUTE == 60000
\* should_allow_tweet, should_check_notifications: num_minutes() >= 5
COOLDOWN_MINUTES == 5
\* run: sleep(Duration::from_secs(15 * 60)) on a rate-limited post
RATE_LIMIT_SLEEP == 900000
\* handle_notifications*, after a successful reply: sleep(Duration::from_secs(30))
REPLY_DELAY == 30000
\* generate_and_post_fud: const MAX_ATTEMPTS: usize = 3
MAX_ATTEMPTS == 3
\* Runtime::new: max_recent_phrases: 50
MAX_RECENT_PHRASES == 50
\* run_periodically: should_run_scheduled_action(&[0, 15, 30, 45])
QuarterHourMarks == {0, 15, 30, 45}

(***************************************************************************)
(* Bounds of the model.                                                    *)
(***************************************************************************)
\* no operation starts once the wall clock has passed this many ms
MaxClock == 905000
\* no operation starts once Memory.tweets holds this many records
MaxTweets == 3
\* the collaborators fail or delay at most this many calls
MaxIncidents == 1
\* the methods of a runtime are called at most this many times by their caller
MaxOps == 2
\* add_agent is not called on a runtime that holds this many agents
MaxAgents == 1

(***************************************************************************)
(* chrono: the fields of a DateTime<Utc>, and Duration::num_minutes.       *)
(* The clock is read in whole milliseconds, and the reads of one stretch   *)
(* of code without an await give the same value: what happens inside one   *)
(* millisecond is not told apart.                                          *)
(***************************************************************************)
MinuteOf(t) == (t \div MINUTE) % 60
SecondOf(t) == (t \div SECOND) % 60
NumMinutes(d) == d \div MINUTE
NumMilliseconds(d) == d
\* (now + 1 s).with_nanosecond(0)
NextSecond(now) == ((now + SECOND) \div SECOND) * SECOND

(***************************************************************************)
(* The data the collaborators hand to the runtime.                         *)
(***************************************************************************)
\* a TokenResponse, as far as the runtime reads it: its symbol and its pools
BONK == [symbol |-> <<"B", "O", "N", "K">>, pools |-> 1]
RUGME == [symbol |-> <<"R", "U", "G", "M", "E">>, pools |-> 0]
(***************************************************************************)
(* Strings are sequences of characters, so that the string functions of    *)
(* the source (split_whitespace, to_lowercase, contains, starts_with,      *)
(* trim_matches) are computed on the characters.                           *)
(***************************************************************************)
UpperCase == <<"A", "B", "C", "D", "E", "F", "G", "H", "I", "J", "K", "L", "M", "N", "O", "P", "Q", "R", "S", "T", "U", "V", "W", "X", "Y", "Z">>
LowerCase == <<"a", "b", "c", "d", "e", "f", "g", "h", "i", "j", "k", "l", "m", "n", "o", "p", "q", "r", "s", "t", "u", "v", "w", "x", "y", "z">>
Digits == <<"0", "1", "2", "3", "4", "5", "6", "7", "8", "9">>
\* char::to_lowercase, on ASCII
LowerChar(c) ==
    IF \E i \in DOMAIN UpperCase : UpperCase[i] = c
    THEN LowerCase[CHOOSE i \in DOMAIN UpperCase : UpperCase[i] = c]
    ELSE c
\* char::to_uppercase, on ASCII
UpperChar(c) ==
    IF \E i \in DOMAIN LowerCase : LowerCase[i] = c
    THEN UpperCase[CHOOSE i \in DOMAIN LowerCase : LowerCase[i] = c]
    ELSE c
\* str::to_uppercase
ToUppercase(text) == [i \in DOMAIN text |-> UpperChar(text[i])]
\* str::to_lowercase
ToLowercase(text) == [i \in DOMAIN text |-> LowerChar(text[i])]
\* str::contains(pattern)
Contains(text, pattern) ==
    \E i \in 0..(Len(text) - Len(pattern)) : SubSeq(text, i + 1, i + Len(pattern)) = pattern
\* str::starts_with(prefix)
StartsWith(text, prefix) ==
    Len(prefix) <= Len(text) /\ SubSeq(text, 1, Len(prefix)) = prefix
\* str::split_whitespace: the maximal runs of non-blank characters
\* the words of text from position i on
RECURSIVE SplitFrom(_, _)
SplitFrom(text, i) ==
    IF \A j \in i..Len(text) : text[j] = " " THEN <<>>
    ELSE LET first == CHOOSE j \in i..Len(text) :
                         text[j] # " " /\ \A k \in i..(j - 1) : text[k] = " "
             last == CHOOSE j \in first..Len(text) :
                        /\ \A k \in first..j : text[k] # " "
                        /\ (j = Len(text) \/ text[j + 1] = " ")
         IN  <<SubSeq(text, first, last)>> \o SplitFrom(text, last + 1)
SplitWhitespace(text) == SplitFrom(text, 1)
\* [a, b, c].join(" ")
Join3(a, b, c) == a \o <<" ">> \o b \o <<" ">> \o c

\* what the LLM (after ensure_unique_style) can return for a prompt:
\* "Dev sold the bag" and "Ser wen rug"
Drafts == { <<"D", "e", "v", " ", "s", "o", "l", "d", " ", "t", "h", "e", " ", "b", "a", "g">>,
            <<"S", "e", "r", " ", "w", "e", "n", " ", "r", "u", "g">> }
\* a draft that alone brings one phrase more than the window holds: one-letter
\* words, no three in a row the same twice, "a b c ... 8 9 a c e ..."
LongDraftWords == MAX_RECENT_PHRASES + 3
LongDraftWord(i) ==
    LET letters == LowerCase \o Digits
    IN  IF i <= Len(letters) THEN letters[i] ELSE letters[2 * (i - Len(letters)) - 1]
LongDraft ==
    [i \in 1..(2 * LongDraftWords - 1) |-> IF i % 2 = 1 THEN LongDraftWord((i + 1) \div 2) ELSE " "]
\* a draft that alone fills the window: the first MAX_RECENT_PHRASES + 2 words of LongDraft
FullDraft == SubSeq(LongDraft, 1, 2 * (MAX_RECENT_PHRASES + 2) - 1)
\* a draft that says one word six times: "rug rug rug rug rug rug"
RepeatingDraft == [i \in 1..23 |-> <<"r", "u", "g", " ">>[((i - 1) % 4) + 1]]
\* a text of one phrase, the second phrase of "Dev sold the bag"
ShortDraft == <<"s", "o", "l", "d", " ", "t", "h", "e", " ", "b", "a", "g">>
\* a mention of the account: a Tweet of the platform, with its id and its text
\* "wen moon", "thoughts on $BONK", "ca?", "gm ser"
Mention1 == [id |-> 1, text |-> <<"w", "e", "n", " ", "m", "o", "o", "n">>]
Mention2 == [id |-> 2, text |-> <<"t", "h", "o", "u", "g", "h", "t", "s", " ", "o", "n", " ", "$", "B", "O", "N", "K">>]
Mention3 == [id |-> 3, text |-> <<"$", "B", "O", "N", "K", " ", "c", "a", "?">>]
Mention4 == [id |-> 4, text |-> <<"g", "m", " ", "s", "e", "r">>]
AllMentions == <<Mention1, Mention2, Mention3, Mention4>>
\* u64::to_string: the decimal digits
RECURSIVE IdToString(_)
IdToString(n) ==
    IF n < 10 THEN <<Digits[n + 1]>> ELSE IdToString(n \div 10) \o <<Digits[(n % 10) + 1]>>
\* the id of the bot's own account, and the ids the platform gives its posts
OwnUserIds == {9}
\* the errors of the HTTP collaborators, by their text
RateLimitError == "429 Too Many Requests"
OtherError == "503 Service Unavailable"
\* no error is taken for a rate limit
NoRateLimit(e) == FALSE
\* e.to_string().contains("429")
Contains429(e) == e = RateLimitError

Ok(v) == [ok |-> TRUE, val |-> v, err |-> ""]
Err(e) == [ok |-> FALSE, val |-> <<>>, err |-> e]

(***************************************************************************)
(* The state as one record, so that a method is a function of the state.   *)
(***************************************************************************)
Cur ==
    [agents |-> agents, memory |-> memory, processed_tweets |-> processed_tweets,
     cached_user_id |-> cached_user_id,
     last_notification_check |-> last_notification_check,
     last_tweet_time |-> last_tweet_time, recent_phrases |-> recent_phrases,
     character |-> character, clock |-> clock, memory_file |-> memory_file,
     processed_file |-> processed_file, env |-> env, status |-> status,
     events |-> events, hist |-> hist]

Become(s) ==
    /\ agents' = s.agents
    /\ memory' = s.memory
    /\ processed_tweets' = s.processed_tweets
    /\ cached_user_id' = s.cached_user_id
    /\ last_notification_check' = s.last_notification_check
    /\ last_tweet_time' = s.last_tweet_time
    /\ recent_phrases' = s.recent_phrases
    /\ character' = s.character
    /\ clock' = s.clock
    /\ memory_file' = s.memory_file
    /\ processed_file' = s.processed_file
    /\ env' = s.env
    /\ status' = s.status
    /\ events' = s.events
    /\ hist' = s.hist

\* one entry of the log of an operation: a call, when it was issued and how it ended
Event(op, arg, at, res) == [op |-> op, arg |-> arg, at |-> at, res |-> res, val |-> <<>>]
Log(s, op, arg, res) == [s EXCEPT !.events = Append(@, Event(op, arg, s.clock, res))]
\* the last two elements of a history
Last2(h, x) == IF Len(h) < 2 THEN Append(h, x) ELSE <<h[2], x>>

\* a method's outcome: the state it leaves and what it returns
Return(s, ret) == [st |-> Log(s, "return", <<>>, ret), ret |-> ret]
\* a panic unwinds through every caller and ends the process
Panic(s, why) == [st |-> [Log(s, "panic", <<>>, why) EXCEPT !.status = "panicked"], ret |-> "Panic"]

(***************************************************************************)
(* An awaited call of a collaborator: it ends with one of `results` after  *)
(* one of the latencies the environment allows.  The loop is suspended     *)
(* for that long: nothing else runs.                                       *)
(***************************************************************************)
Latencies(s, op) == IF op \in DOMAIN s.env.latency THEN s.env.latency[op] ELSE {0}
\* an error and a delay are incidents; the environment has s.env.incidents of them left
Incidents(ok, d) == (IF ok THEN 0 ELSE 1) + (IF d > 0 THEN 1 ELSE 0)
Await(s, op, arg, results) ==
    { [st |-> [s EXCEPT !.clock = @ + c.d,
                        !.env.incidents = @ - Incidents(c.r.ok, c.d),
                        !.events = Append(@, [Event(op, arg, s.clock,
                                                    IF c.r.ok THEN "Ok" ELSE c.r.err)
                                              EXCEPT !.val = c.r.val])],
       res |-> c.r]
      : c \in { x \in [r : results, d : Latencies(s, op)]
                : Incidents(x.r.ok, x.d) <= s.env.incidents } }

\* tokio::time::sleep
Sleep(s, ms) == [Log(s, "sleep", <<ms>>, "Ok") EXCEPT !.clock = @ + ms]

\* SolanaTracker::get_top_tokens(limit): the trending list, cut to limit
Take(list, n) == SubSeq(list, 1, Min(n, Len(list)))
GetTopTokens(s, limit) ==
    Await(s, "get_top_tokens", <<limit>>,
          {Ok(Take(l, limit)) : l \in s.env.trending} \cup {Err(OtherError)})
\* rig Agent::prompt: the completion of the LLM
Prompt(s, answers) == Await(s, "prompt", <<>>, {Ok(d) : d \in answers} \cup {Err(OtherError)})
\* Twitter::get_user_id
GetUserId(s) == Await(s, "get_user_id", <<>>, {Ok(<<id>>) : id \in OwnUserIds} \cup {Err(OtherError)})
PostResults(s) == {Ok(<<id>>) : id \in s.env.post_ids} \cup {Err(RateLimitError), Err(OtherError)}
\* Twitter::tweet
TwitterTweet(s, text) == Await(s, "tweet", text, PostResults(s))
\* Twitter::upload_bytes
UploadBytes(s) == Await(s, "upload_bytes", <<>>, {Ok(<<1>>), Err(OtherError)})
\* Twitter::tweet_with_image
TweetWithImage(s, text) == Await(s, "tweet_with_image", text, PostResults(s))
\* Twitter::reply_to_tweet
ReplyToTweet(s, tweet_id, text) == Await(s, "reply_to_tweet", <<tweet_id>>, PostResults(s))
\* Twitter::get_notifications: the mentions of the account, in the platform's order
GetNotifications(s) ==
    Await(s, "get_notifications", <<>>,
          {Ok(l) : l \in s.env.mentions} \cup {Err(RateLimitError), Err(OtherError)})

(***************************************************************************)
(* MemoryStore (src/src/memory.rs) and the two files it keeps.             *)
(***************************************************************************)
\* models::Memory::default()
DefaultMemory ==
    [tweets |-> <<>>, next_id |-> 0, next_tweet |-> None,
     debug_mode |-> FALSE, tweet_mode |-> FALSE,
     token_address |-> <<>>, token_symbol |-> <<>>]

\* serde_json::to_string_pretty(memory): the document of ./storage/memory.json
TweetToJson(t) ==
    [internal_id |-> t.internal_id,
     twitter_id |-> IF IsSome(t.twitter_id) THEN <<Unwrap(t.twitter_id)>> ELSE <<>>,
     text |-> t.text, prompt |-> t.prompt, timestamp |-> t.timestamp,
     tweet_type |-> t.tweet_type,
     reply_to |-> IF IsSome(t.reply_to) THEN <<Unwrap(t.reply_to)>> ELSE <<>>]
MemoryToJson(m) ==
    [tweets |-> [i \in DOMAIN m.tweets |-> TweetToJson(m.tweets[i])],
     next_id |-> m.next_id,
     next_tweet |-> IF IsSome(m.next_tweet) THEN <<Unwrap(m.next_tweet)>> ELSE <<>>,
     debug_mode |-> m.debug_mode, tweet_mode |-> m.tweet_mode,
     token_address |-> m.token_address, token_symbol |-> m.token_symbol]
\* serde_json::from_str::<Memory>
TweetFromJson(j) ==
    [internal_id |-> j.internal_id,
     twitter_id |-> IF j.twitter_id = <<>> THEN None ELSE Some(j.twitter_id[1]),
     text |-> j.text, prompt |-> j.prompt, timestamp |-> j.timestamp,
     tweet_type |-> j.tweet_type,
     reply_to |-> IF j.reply_to = <<>> THEN None ELSE Some(j.reply_to[1])]
MemoryFromJson(j) ==
    [tweets |-> [i \in DOMAIN j.tweets |-> TweetFromJson(j.tweets[i])],
     next_id |-> j.next_id,
     next_tweet |-> IF j.next_tweet = <<>> THEN None ELSE Some(j.next_tweet[1]),
     debug_mode |-> j.debug_mode, tweet_mode |-> j.tweet_mode,
     token_address |-> j.token_address, token_symbol |-> j.token_symbol]

\* a write to the disk fails: an incident, unless the disk never takes a write
WriteFails(s) ==
    { [s EXCEPT !.env.incidents = @ - (IF TRUE \in s.env.disk THEN 1 ELSE 0)]
      : x \in { w \in s.env.disk : ~w /\ (s.env.incidents > 0 \/ TRUE \notin s.env.disk) } }
\* MemoryStore::save_memory: the file is overwritten, or (an io error) left as it was
SaveMemory(s) ==
    { [st |-> [Log(s, "save_memory", <<>>, "Ok") EXCEPT !.memory_file = Some(MemoryToJson(s.memory))],
       ok |-> TRUE] : x \in { w \in s.env.disk : w } }
    \cup { [st |-> Log(f, "save_memory", <<>>, "Err"), ok |-> FALSE] : f \in WriteFails(s) }

\* MemoryStore::load_memory, as Runtime::new uses it: unwrap_or_else(Memory::default)
LoadMemory(file) == IF IsSome(file) THEN MemoryFromJson(Unwrap(file)) ELSE DefaultMemory

\* an append that leaves next_id as it was
AddToMemoryKeepingNextId(s, text, prompt, twitter_id) ==
    LET tweet == [internal_id |-> s.memory.next_id, twitter_id |-> twitter_id,
                  text |-> text, prompt |-> prompt, timestamp |-> s.clock,
                  tweet_type |-> "Original", reply_to |-> None]
        pushed == [s EXCEPT !.memory.tweets = Append(@, tweet),
                            !.hist.ids = Increment(@, s.memory.next_id, 2),
                            !.events = Append(@, Event("add_to_memory", text, s.clock, "Original"))]
    IN  { r.st : r \in SaveMemory(pushed) }
\* MemoryStore::add_to_memory: the save's result is dropped (let _ =)
AddToMemory(s, text, prompt, twitter_id) ==
    LET tweet == [internal_id |-> s.memory.next_id, twitter_id |-> twitter_id,
                  text |-> text, prompt |-> prompt, timestamp |-> s.clock,
                  tweet_type |-> "Original", reply_to |-> None]
        pushed == [s EXCEPT !.memory.tweets = Append(@, tweet),
                            !.memory.next_id = @ + 1,
                            !.hist.ids = Increment(@, s.memory.next_id, 2),
                            !.events = Append(@, Event("add_to_memory", text, s.clock, "Original"))]
    IN  { r.st : r \in SaveMemory(pushed) }

\* MemoryStore::add_reply_to_memory
AddReplyToMemory(s, text, prompt, twitter_id, reply_to) ==
    LET tweet == [internal_id |-> s.memory.next_id, twitter_id |-> twitter_id,
                  text |-> text, prompt |-> prompt, timestamp |-> s.clock,
                  tweet_type |-> "Reply", reply_to |-> Some(reply_to)]
        pushed == [s EXCEPT !.memory.tweets = Append(@, tweet),
                            !.memory.next_id = @ + 1,
                            !.hist.ids = Increment(@, s.memory.next_id, 2),
                            !.events = Append(@, Event("add_reply_to_memory", text, s.clock, reply_to))]
    IN  { r.st : r \in SaveMemory(pushed) }

\* the ids of a HashSet<String>, in the order the serializer walks them
RECURSIVE SetToSeq(_)
SetToSeq(S) ==
    IF S = {} THEN <<>>
    ELSE LET x == CHOOSE y \in S : TRUE IN <<x>> \o SetToSeq(S \ {x})
\* MemoryStore::save_processed_tweets: ProcessedNotifications { tweet_ids }
SaveProcessedTweets(s) ==
    { [st |-> [Log(s, "save_processed_tweets", <<>>, "Ok")
                 EXCEPT !.processed_file = Some([tweet_ids |-> SetToSeq(s.processed_tweets)])],
       ok |-> TRUE] : x \in { w \in s.env.disk : w } }
    \cup { [st |-> Log(f, "save_processed_tweets", <<>>, "Err"), ok |-> FALSE] : f \in WriteFails(s) }
\* nothing is read back from the file
NoProcessedTweets(file) == {}
\* MemoryStore::load_processed_tweets, as Runtime::new uses it
LoadProcessedTweets(file) == IF IsSome(file) THEN Range(Unwrap(file).tweet_ids) ELSE {}

(***************************************************************************)
(* Agent and FudAnalysis (src/src/core/agent.rs).                          *)
(***************************************************************************)
\* FudAnalysis::update: let patterns = ["ser", "ngmi", "wen", "just", "literally"]
Patterns == { <<"s", "e", "r">>,
              <<"n", "g", "m", "i">>,
              <<"w", "e", "n">>,
              <<"j", "u", "s", "t">>,
              <<"l", "i", "t", "e", "r", "a", "l", "l", "y">> }
\* a count above its threshold stays above it: the model stops counting there
WordCap == 6
PatternCap == 4
\* text.to_lowercase().contains(pattern)
ContainsPattern(text, pattern) == Contains(ToLowercase(text), pattern)

\* FudAnalysis::new
NewFudAnalysis ==
    [word_frequencies |-> [w \in {} |-> 0], pattern_frequencies |-> [w \in {} |-> 0]]
\* for word in text.split_whitespace(): the count of word.to_lowercase() goes up
UpdateWords(map, words) ==
    LET lower == [i \in DOMAIN words |-> ToLowercase(words[i])]
    IN  [w \in DOMAIN map \cup Range(lower) |->
           Min(Count(map, w) + Cardinality({ i \in DOMAIN lower : lower[i] = w }), WordCap)]
RECURSIVE UpdatePatterns(_, _, _)
UpdatePatterns(map, text, todo) ==
    IF todo = {} THEN map
    ELSE LET p == CHOOSE x \in todo : TRUE
         IN  UpdatePatterns(IF ContainsPattern(text, p) THEN Increment(map, p, PatternCap) ELSE map,
                            text, todo \ {p})
\* the counts start again with every text
FudUpdateFromNew(a, text) ==
    [word_frequencies |-> UpdateWords(NewFudAnalysis.word_frequencies, SplitWhitespace(text)),
     pattern_frequencies |-> UpdatePatterns(NewFudAnalysis.pattern_frequencies, text, Patterns)]
\* FudAnalysis::update
FudUpdate(a, text) ==
    [word_frequencies |-> UpdateWords(a.word_frequencies, SplitWhitespace(text)),
     pattern_frequencies |-> UpdatePatterns(a.pattern_frequencies, text, Patterns)]
\* FudAnalysis::is_overused
IsOverused(a, text) ==
    \/ \E w \in Range(SplitWhitespace(text)) : Count(a.word_frequencies, ToLowercase(w)) > 5
    \/ \E p \in DOMAIN a.pattern_frequencies :
          a.pattern_frequencies[p] > 3 /\ ContainsPattern(text, p)

\* Agent::new
NewAgent(prompt) == [prompt |-> prompt, fud_analysis |-> NewFudAnalysis]

\* the analysis takes in every draft, the rejected ones as well
RECURSIVE CountingEveryDraft(_, _)
CountingEveryDraft(s, attempt) ==
    IF attempt >= 3
    THEN { [st |-> s, res |-> Err("Failed to generate unique FUD content")] }
    ELSE UNION {
           IF ~p.res.ok THEN { [st |-> p.st, res |-> Err(p.res.err)] }
           ELSE LET processed_response == p.res.val
                    counted == [p.st EXCEPT !.agents[1].fud_analysis = FudUpdate(@, processed_response)]
                IN  IF attempt = 2 \/ ~IsOverused(p.st.agents[1].fud_analysis, processed_response)
                    THEN { [st |-> counted, res |-> Ok(processed_response)] }
                    ELSE CountingEveryDraft(counted, attempt + 1)
           : p \in Prompt(s, s.env.drafts) }
\* Agent::generate_editorialized_fud on agents[0]: for attempt in 0..3
RECURSIVE EditorializedFudAttempt(_, _)
EditorializedFudAttempt(s, attempt) ==
    IF attempt >= 3
    THEN { [st |-> s, res |-> Err("Failed to generate unique FUD content")] }
    ELSE UNION {
           IF ~p.res.ok THEN { [st |-> p.st, res |-> Err(p.res.err)] }
           ELSE LET processed_response == p.res.val
                IN  IF attempt = 2 \/ ~IsOverused(p.st.agents[1].fud_analysis, processed_response)
                    THEN { [st |-> [p.st EXCEPT !.agents[1].fud_analysis =
                                                   FudUpdate(@, processed_response)],
                            res |-> Ok(processed_response)] }
                    ELSE EditorializedFudAttempt(p.st, attempt + 1)
           : p \in Prompt(s, s.env.drafts) }
GenerateEditorializedFud(s) == EditorializedFudAttempt(s, 0)

(***************************************************************************)
(* Runtime (src/src/core/runtime.rs): the gates.                           *)
(***************************************************************************)
\* Runtime::should_allow_tweet
ShouldAllowTweet(s) ==
    IF s.last_tweet_time = None THEN TRUE
    ELSE NumMinutes(s.clock - Unwrap(s.last_tweet_time)) >= COOLDOWN_MINUTES

\* the schedule with the test of the second left out
ShouldRunAnySecond(s, minutes) == MinuteOf(s.clock) \in minutes
\* Runtime::should_run_scheduled_action
ShouldRunScheduledAction(s, minutes) ==
    MinuteOf(s.clock) \in minutes /\ SecondOf(s.clock) = 0

\* Runtime::should_check_notifications
ShouldCheckNotifications(s) ==
    IF s.last_notification_check = None THEN TRUE
    ELSE NumMinutes(s.clock - Unwrap(s.last_notification_check)) >= COOLDOWN_MINUTES

\* the id is asked of the platform at every call, cached or not
FetchUserIdAgain(s) ==
    { IF p.res.ok
      THEN [st |-> [p.st EXCEPT !.cached_user_id = Some(p.res.val[1])], res |-> p.res]
      ELSE p
      : p \in GetUserId(s) }
\* Runtime::ensure_user_id
EnsureUserId(s) ==
    IF IsSome(s.cached_user_id)
    THEN { [st |-> s, res |-> Ok(<<Unwrap(s.cached_user_id)>>)] }
    ELSE { IF p.res.ok
           THEN [st |-> [p.st EXCEPT !.cached_user_id = Some(p.res.val[1])], res |-> p.res]
           ELSE p
           : p \in GetUserId(s) }

(***************************************************************************)
(* The recent-phrase window.                                               *)
(***************************************************************************)
\* words.windows(3), each window.join(" ").to_lowercase()
Phrases(text) ==
    LET words == SplitWhitespace(text)
    IN  { ToLowercase(Join3(words[i], words[i + 1], words[i + 2])) : i \in 1..(Len(words) - 2) }

RECURSIVE KSubsets(_, _)
KSubsets(S, k) ==
    IF k = 0 THEN {{}}
    ELSE IF S = {} THEN {}
    ELSE LET x == CHOOSE y \in S : TRUE
         IN  KSubsets(S \ {x}, k) \cup { E \cup {x} : E \in KSubsets(S \ {x}, k - 1) }
\* a window that is never cut
KeepPhrases(phrases, max) == { phrases }
\* the size limit: the first len - max phrases of the HashSet's iteration order
\* (an order the program does not control) are removed
EvictPhrases(phrases, max) ==
    IF Cardinality(phrases) > max
    THEN { phrases \ E : E \in KSubsets(phrases, Cardinality(phrases) - max) }
    ELSE { phrases }

\* Runtime::contains_recent_phrase: true, and nothing changes, when a phrase of the
\* text is in the window; else the phrases are inserted and the window is cut
ContainsRecentPhrase(s0, text) ==
    LET s == Log(s0, "contains_recent_phrase", text, "begin")
    IN  IF \E ph \in Phrases(text) : ph \in s.recent_phrases
        THEN { [st |-> Log(s, "return", <<>>, "true"), ret |-> TRUE] }
        ELSE { [st |-> Log([s EXCEPT !.recent_phrases = w], "return", <<>>, "false"), ret |-> FALSE]
               : w \in EvictPhrases(s.recent_phrases \cup Phrases(text), MAX_RECENT_PHRASES) }

(***************************************************************************)
(* Runtime::generate_and_post_fud                                          *)
(***************************************************************************)
\* a post of the cycle was accepted by the platform at the time the call returned
PostSucceeded(s, now) ==
    [s EXCEPT !.last_tweet_time = Some(now),
              !.hist.posts = Last2(@, s.clock)]

\* lines 646-662: the draft's phrases join the window, which is cut to its size
UpdateRecentPhrases(s, fud) ==
    { [s EXCEPT !.recent_phrases = w]
      : w \in EvictPhrases(s.recent_phrases \cup Phrases(fud), MAX_RECENT_PHRASES) }

\* lines 612-634: the 30% branch that posts with an image
PostWithImage(s, now, fud) ==
    UNION {
      IF img = "none" THEN { s }                       \* "Failed to get random image"
      ELSE IF img = "unreadable" THEN { s }            \* fs::read failed: nothing is done
      ELSE UNION {
             IF ~u.res.ok THEN { u.st }                \* "Failed to upload image"
             ELSE { IF p.res.ok THEN PostSucceeded(p.st, now) ELSE p.st
                    : p \in TweetWithImage(u.st, fud) }
             : u \in UploadBytes(s) }
      : img \in s.env.images }

\* a submission that stamps last_tweet_time whatever the platform answered
PostStamped(s, now, fud) ==
    { PostSucceeded(p.st, now) : p \in TwitterTweet(s, fud) }
\* lines 636-644: the regular tweet without image
PostWithoutImage(s, now, fud) ==
    { IF p.res.ok THEN PostSucceeded(p.st, now) ELSE p.st : p \in TwitterTweet(s, fud) }

\* lines 607-665: what is done with the accepted draft
PostDraft(s, now, fud) ==
    IF s.memory.tweet_mode
    THEN UNION {
           IF ~u.res.ok THEN { Return(u.st, "Err") }   \* ensure_user_id().await?
           ELSE UNION {
                  { Return(w, "Ok") : w \in UpdateRecentPhrases(posted, fud) }
                  : posted \in PostWithImage(u.st, now, fud) \cup PostWithoutImage(u.st, now, fud) }
           : u \in EnsureUserId(s) }
    ELSE { Return(s, "Ok") }

\* lines 591-668: the loop that asks for drafts
RECURSIVE DraftLoop(_, _, _)
DraftLoop(s, now, attempts) ==
    UNION {
      IF ~g.res.ok THEN { Return(g.st, "Err") }        \* generate_editorialized_fud().await?
      ELSE LET fud == g.res.val
               contains_recent == \E ph \in Phrases(fud) : ph \in g.st.recent_phrases
           IN  IF ~contains_recent \/ attempts >= MAX_ATTEMPTS
               THEN PostDraft(Log(g.st, "accept", fud, "Ok"), now, fud)
               ELSE DraftLoop(g.st, now, attempts + 1)
      : g \in GenerateEditorializedFud(Log(s, "draft", <<attempts>>, "request")) }

\* SolanaTracker::format_token_summary: token.pools.first().unwrap()
FormatTokenSummaryPanics(token) == token.pools = 0

GenerateAndPostFud(s0) ==
    LET s == Log(s0, "generate_and_post_fud", <<>>, "begin")
        now == s.clock
    IN  IF ~ShouldAllowTweet(s) THEN { Return(s, "Ok") }
        ELSE UNION {
               IF ~t.res.ok THEN { Return(t.st, "Err") }   \* get_top_tokens(30).await?
               ELSE LET tokens == t.res.val
                    IN  \* rng.gen_range(0..tokens.len()) panics on an empty range
                        IF Len(tokens) = 0 THEN { Panic(t.st, "cannot sample empty range") }
                        ELSE UNION {
                               IF FormatTokenSummaryPanics(tokens[i])
                               THEN { Panic(t.st, "called Option::unwrap() on a None value") }
                               ELSE IF Len(t.st.agents) = 0
                               THEN { Panic(t.st, "index out of bounds") }
                               ELSE DraftLoop(t.st, now, 0)
                               : i \in 1..Len(tokens) }
               : t \in GetTopTokens(s, 30) }

(***************************************************************************)
(* The text functions of the notification handlers.                        *)
(***************************************************************************)
Base58Chars ==
    Range(<<"1", "2", "3", "4", "5", "6", "7", "8", "9", "A", "B", "C", "D", "E", "F", "G", "H", "J", "K", "L", "M", "N", "P", "Q", "R", "S", "T", "U", "V", "W", "X", "Y", "Z", "a", "b", "c", "d", "e", "f", "g", "h", "i", "j", "k", "m", "n", "o", "p", "q", "r", "s", "t", "u", "v", "w", "x", "y", "z">>)
\* the characters char::is_ascii_alphanumeric accepts
AsciiAlphanumeric == Range(UpperCase) \cup Range(LowerCase) \cup Range(Digits)

\* Runtime::is_solana_address
IsSolanaAddress(text) ==
    IF Len(text) < 32 \/ Len(text) > 44 THEN FALSE
    ELSE \A i \in DOMAIN text : text[i] \in Base58Chars

\* str::trim_end_matches(|c| !keep.contains(c))
RECURSIVE TrimEnd(_, _)
TrimEnd(text, keep) ==
    IF text = <<>> THEN text
    ELSE IF text[Len(text)] \in keep THEN text
    ELSE TrimEnd(SubSeq(text, 1, Len(text) - 1), keep)
\* str::trim_start_matches(|c| !keep.contains(c))
RECURSIVE TrimStart(_, _)
TrimStart(text, keep) ==
    IF text = <<>> THEN text
    ELSE IF text[1] \in keep THEN text
    ELSE TrimStart(Tail(text), keep)
\* str::find: the offset of the first occurrence
Find(text, pattern) ==
    LET hits == { i \in 0..(Len(text) - Len(pattern)) :
                    SubSeq(text, i + 1, i + Len(pattern)) = pattern }
    IN  IF hits = {} THEN None ELSE Some(CHOOSE i \in hits : \A j \in hits : i <= j)

\* lines 486-504: the first word that is an address or a $ticker
RECURSIVE FirstTickerWord(_)
FirstTickerWord(words) ==
    IF words = <<>> THEN None
    ELSE LET trimmed == Head(words)
             ticker == TrimEnd(Tail(trimmed), AsciiAlphanumeric)
         IN  IF IsSolanaAddress(trimmed) THEN Some(<<trimmed, TRUE>>)
             ELSE IF trimmed[1] = "$" /\ Len(trimmed) > 1 /\ ticker # <<>>
                  THEN Some(<<ticker, FALSE>>)
                  ELSE FirstTickerWord(Tail(words))

TriggerWords == << <<"t", "h", "o", "u", "g", "h", "t", "s", " ", "o", "n">>,
                  <<"t", "h", "i", "n", "k", " ", "o", "f">>,
                  <<"a", "b", "o", "u", "t">>,
                  <<"c", "o", "n", "t", "r", "a", "c", "t">>,
                  <<"a", "d", "d", "r", "e", "s", "s">> >>
\* |c| !c.is_ascii_alphanumeric() && c != '_' is trimmed
TokenChars == AsciiAlphanumeric \cup {"_"}
\* lines 510-530: the word after the first trigger phrase that has one
RECURSIVE AfterTrigger(_, _)
AfterTrigger(text, k) ==
    IF k > Len(TriggerWords) THEN None
    ELSE LET pos == Find(ToLowercase(text), TriggerWords[k])
             after_trigger == SubSeq(text, Unwrap(pos) + Len(TriggerWords[k]) + 1, Len(text))
             rest == SplitWhitespace(after_trigger)
             token == TrimStart(TrimEnd(rest[1], TokenChars), TokenChars)
         IN  IF pos # None /\ rest # <<>> /\ token # <<>>
             THEN Some(<<token, IsSolanaAddress(token)>>)
             ELSE AfterTrigger(text, k + 1)

\* Runtime::extract_ticker_or_address: Option<(token, is_address)>
ExtractTickerOrAddress(text) ==
    LET first == FirstTickerWord(SplitWhitespace(text))
    IN  IF first # None THEN first ELSE AfterTrigger(text, 1)

ContractPatterns == { <<"c", "o", "n", "t", "r", "a", "c", "t">>,
                      <<"a", "d", "d", "r", "e", "s", "s">>,
                      <<"c", "a">>,
                      <<"C", "A", "?">>,
                      <<"c", "a", "?">>,
                      <<"c", "o", "n", "t", "r", "a", "c", "t", " ", "a", "d", "d", "r", "e", "s", "s">>,
                      <<"t", "o", "k", "e", "n", " ", "a", "d", "d", "r", "e", "s", "s">> }
TickerPatterns == { <<"t", "i", "c", "k", "e", "r">>,
                    <<"s", "y", "m", "b", "o", "l">>,
                    <<"t", "o", "k", "e", "n", " ", "s", "y", "m", "b", "o", "l">>,
                    <<"w", "h", "a", "t", "'", "s", " ", "y", "o", "u", "r", " ", "t", "i", "c", "k", "e", "r">>,
                    <<"w", "h", "a", "t", "'", "s", " ", "y", "o", "u", "r", " ", "s", "y", "m", "b", "o", "l">>,
                    <<"d", "o", " ", "y", "o", "u", " ", "h", "a", "v", "e", " ", "a", " ", "t", "o", "k", "e", "n">>,
                    <<"w", "h", "a", "t", "'", "s", " ", "t", "h", "e", " ", "t", "i", "c", "k", "e", "r">>,
                    <<"g", "i", "b", " ", "C", "A">>,
                    <<"w", "h", "a", "t", "'", "s", " ", "t", "h", "e", " ", "C", "A">> }
\* Runtime::is_token_info_request: Option<TokenInfoRequest>
IsTokenInfoRequest(text0) ==
    LET text == ToLowercase(text0)
        is_question == Contains(text, <<"?">>) \/ StartsWith(text, <<"w", "h", "a", "t">>)
    IN  IF ~is_question THEN None
        ELSE IF \E p \in ContractPatterns : Contains(text, p) THEN Some("ContractAddress")
        ELSE IF \E p \in TickerPatterns : Contains(text, p) THEN Some("Ticker")
        ELSE None

(***************************************************************************)
(* Runtime::handle_notifications_fud                                       *)
(***************************************************************************)
\* SolanaTracker::get_token_by_address(..).await.ok()
GetTokenByAddress(s, address) ==
    Await(s, "get_token_by_address", address, {Ok(<<tk>>) : tk \in s.env.tokens} \cup {Err(OtherError)})
\* SolanaTracker::token_search(params): the matches, best first
TokenSearch(s, query) ==
    Await(s, "token_search", query,
          {Ok(<<tk>>) : tk \in s.env.tokens} \cup {Ok(<<>>), Err(OtherError)})

\* the canned answers to a request for the bot's own contract or ticker
NoContractYet == <<"s", "e", "r", " ", "i", " ", "w", "o", "u", "l", "d", " ", "t", "e", "l", "l", " ", "y", "o", "u", " ", "b", "u", "t", " ", "t", "h", "e", " ", "d", "e", "v", "s", " ", "h", "a", "v", "e", "n", "'", "t", " ", "g", "i", "v", "e", "n", " ", "m", "e", " ", "t", "h", "a", "t", " ", "i", "n", "f", "o", " ", "y", "e", "t", " ", "n", "g", "m", "i">>
NoTickerYet == <<"i", "m", "a", "g", "i", "n", "e", " ", "a", "s", "k", "i", "n", "g", " ", "f", "o", "r", " ", "a", " ", "t", "i", "c", "k", "e", "r", " ", "w", "h", "e", "n", " ", "t", "h", "e", " ", "d", "e", "v", "s", " ", "h", "a", "v", "e", "n", "'", "t", " ", "e", "v", "e", "n", " ", "t", "o", "l", "d", " ", "m", "e", " ", "w", "h", "a", "t", " ", "i", "t", " ", "i", "s", " ", "y", "e", "t">>
\* lines 723-738
TokenInfoResponse(s, request) ==
    IF request = "ContractAddress"
    THEN IF s.memory.token_address = <<>> THEN NoContractYet
         ELSE <<"c", "o", "n", "t", "r", "a", "c", "t", ":", " ">> \o s.memory.token_address \o <<" ", "a", "p", "e", " ", "r", "e", "s", "p", "o", "n", "s", "i", "b", "l", "y", " ", "s", "e", "r">>
    ELSE IF s.memory.token_symbol = <<>> THEN NoTickerYet
         ELSE <<"$">> \o s.memory.token_symbol \o <<" ", "d", "o", "n", "'", "t", " ", "s", "a", "y", " ", "i", " ", "d", "i", "d", "n", "'", "t", " ", "w", "a", "r", "n", " ", "y", "o", "u">>

\* a panic inside a step that yields a Result
Panicked(s, why) == [st |-> Panic(s, why).st, res |-> Err("panic")]

\* lines 739-775: the answer to a mention that names a ticker or an address
LookupResponse(s, token, is_address) ==
    LET found == IF is_address THEN GetTokenByAddress(s, token) ELSE TokenSearch(s, token)
    IN  UNION {
          LET token_info == IF f.res.ok /\ f.res.val # <<>> THEN Some(f.res.val[1]) ELSE None
          IN  IF IsSome(token_info)
              THEN IF FormatTokenSummaryPanics(Unwrap(token_info))
                   THEN { Panicked(f.st, "called Option::unwrap() on a None value") }
                   ELSE GenerateEditorializedFud(f.st)
              ELSE \* generate_generic_fud_with_agent(agent).await?
                   Prompt(f.st, f.st.env.drafts)
          : f \in found }

\* lines 720-791: fud_response, the text of the reply
FudResponse(s, tweet) ==
    LET request == IsTokenInfoRequest(tweet.text)
        found == ExtractTickerOrAddress(tweet.text)
    IN  IF IsSome(request)
        THEN { [st |-> s, res |-> Ok(TokenInfoResponse(s, Unwrap(request)))] }
        ELSE IF IsSome(found)
        THEN LookupResponse(s, Unwrap(found)[1], Unwrap(found)[2])
        ELSE \* generate_custom_response(prompt).await?
             Prompt(s, s.env.drafts)

\* one more reply was submitted for this inbound id
CountAttempt(s, tweet_id) ==
    [s EXCEPT !.hist.attempts = Increment(@, tweet_id, 2)]

\* lines 715-823: for tweet in notifications_to_process
RECURSIVE ProcessFudNotifications(_, _)
ProcessFudNotifications(s, todo) ==
    IF todo = <<>> THEN { Return(s, "Ok") }
    ELSE LET tweet == Head(todo)
             tweet_id == IdToString(tweet.id)
         IN  UNION {
               IF g.st.status = "panicked" THEN { [st |-> g.st, ret |-> "Panic"] }
               ELSE IF ~g.res.ok THEN { Return(g.st, "Err") }
               ELSE UNION {
                      IF m.memory.tweet_mode
                      THEN UNION {
                             IF r.res.ok
                             THEN ProcessFudNotifications(Sleep(r.st, REPLY_DELAY), Tail(todo))
                             ELSE IF Contains429(r.res.err)
                             THEN { Return(r.st, "Ok") }             \* break
                             ELSE ProcessFudNotifications(r.st, Tail(todo))
                             : r \in ReplyToTweet(CountAttempt(m, tweet_id), tweet_id, g.res.val) }
                      ELSE ProcessFudNotifications(m, Tail(todo))
                      : m \in AddReplyToMemory(Log(g.st, "reply_text", g.res.val, tweet_id),
                                               g.res.val, g.st.agents[1].prompt,
                                               Some(tweet_id), tweet_id) }
               : g \in FudResponse(Log(s, "process", tweet_id, "begin"), tweet) }

\* selected.shuffle(&mut rng); selected.truncate(k): any k distinct elements, in any order
RECURSIVE Arrangements(_, _)
Arrangements(list, k) ==
    IF k = 0 \/ list = <<>> THEN { <<>> }
    ELSE UNION { { <<list[i]>> \o rest
                   : rest \in Arrangements(SubSeq(list, 1, i - 1) \o SubSeq(list, i + 1, Len(list)),
                                           k - 1) }
                 : i \in DOMAIN list }

\* lines 691-698: the mentions no Reply record of the memory answers
Unresponded(s, notifications) ==
    SelectSeq(notifications,
              LAMBDA tweet : ~\E i \in DOMAIN s.memory.tweets :
                                s.memory.tweets[i].reply_to = Some(IdToString(tweet.id)))

\* a pass that takes up every mention it found
ProcessAll(unresponded) == { unresponded }
\* the ids of a list of mentions
Ids(list) == [i \in DOMAIN list |-> list[i].id]
\* lines 703-711
NotificationsToProcess(unresponded) ==
    IF Len(unresponded) > 2 THEN Arrangements(unresponded, 3) ELSE { unresponded }

\* a fetch of the notifications is issued at this time
RecordFetch(s) == [s EXCEPT !.hist.fetches = Last2(@, s.clock)]

HandleNotificationsFud(s0) ==
    LET s == Log(s0, "handle_notifications_fud", <<>>, "begin")
    IN  IF Len(s.agents) = 0 THEN { Return(s, "Err") }
        ELSE IF ~ShouldCheckNotifications(s) THEN { Return(s, "Ok") }
        ELSE UNION {
               IF ~u.res.ok THEN { Return(u.st, "Err") }      \* ensure_user_id().await?
               ELSE UNION {
                      IF n.res.ok
                      THEN LET checked == [n.st EXCEPT !.last_notification_check = Some(n.st.clock)]
                               unresponded == Unresponded(checked, n.res.val)
                               found == [Log(checked, "unresponded", <<Len(unresponded)>>, "Ok")
                                           EXCEPT !.events[Len(checked.events) + 1].val = Ids(unresponded)]
                           IN  UNION { ProcessFudNotifications(Log(found, "selected", Ids(sel), "Ok"), sel)
                                       : sel \in NotificationsToProcess(unresponded) }
                      ELSE IF Contains429(n.res.err)
                      THEN { Return([n.st EXCEPT !.last_notification_check = Some(n.st.clock),
                                                 !.hist.limited = Some(n.st.clock)], "Ok") }
                      ELSE { Return(n.st, "Err") }
                      : n \in GetNotifications(RecordFetch(u.st)) }
               : u \in EnsureUserId(s) }

(***************************************************************************)
(* Runtime::handle_notifications                                           *)
(***************************************************************************)
\* what the LLM can answer to the classification prompt of Agent::should_respond
Verdicts == { <<"[", "r", "e", "s", "p", "o", "n", "d", "]">>, <<"[", "I", "G", "N", "O", "R", "E", "]">> }
\* Agent::should_respond: Result<ResponseDecision>
ShouldRespond(s) ==
    { IF ~p.res.ok THEN p
      ELSE [st |-> p.st,
            res |-> Ok(IF Contains(ToUppercase(p.res.val), <<"[", "R", "E", "S", "P", "O", "N", "D", "]">>)
                       THEN <<"Respond">> ELSE <<"Ignore">>)]
      : p \in Prompt(s, Verdicts) }
\* Agent::generate_reply
GenerateReply(s) == Prompt(s, s.env.drafts)

\* line 358: self.processed_tweets.insert(tweet_id)
MarkProcessed(s, tweet_id) == [s EXCEPT !.processed_tweets = @ \cup {tweet_id}]

\* lines 361-364: save_processed_tweets(..)?; Ok(())
FinishNotifications(s) ==
    { Return(w.st, IF w.ok THEN "Ok" ELSE "Err") : w \in SaveProcessedTweets(s) }

\* lines 317-359: for tweet in notifications_to_process
RECURSIVE ProcessNotifications(_, _)
ProcessNotifications(s, todo) ==
    IF todo = <<>> THEN FinishNotifications(s)
    ELSE LET tweet == Head(todo)
             tweet_id == IdToString(tweet.id)
         IN  UNION {
               IF ~d.res.ok THEN { Return(d.st, "Err") }            \* should_respond(..).await?
               ELSE IF d.res.val = <<"Ignore">>
               THEN ProcessNotifications(MarkProcessed(d.st, tweet_id), Tail(todo))
               ELSE UNION {
                      IF ~g.res.ok THEN { Return(g.st, "Err") }     \* generate_reply(..).await?
                      ELSE UNION {
                             UNION {
                               IF r.res.ok
                               THEN ProcessNotifications(
                                        MarkProcessed(Sleep(r.st, REPLY_DELAY), tweet_id), Tail(todo))
                               ELSE IF Contains429(r.res.err)
                               THEN FinishNotifications(r.st)        \* break
                               ELSE ProcessNotifications(MarkProcessed(r.st, tweet_id), Tail(todo))
                               : r \in ReplyToTweet(CountAttempt(m, tweet_id), tweet_id, g.res.val) }
                             : m \in AddReplyToMemory(Log(g.st, "reply_text", g.res.val, tweet_id),
                                                      g.res.val, g.st.agents[1].prompt,
                                                      Some(tweet_id), tweet_id) }
                      : g \in GenerateReply(d.st) }
               : d \in ShouldRespond(Log(s, "process", tweet_id, "begin")) }

\* lines 307-310: the mentions whose id is not in processed_tweets
NewNotifications(s, notifications) ==
    SelectSeq(notifications, LAMBDA tweet : IdToString(tweet.id) \notin s.processed_tweets)

HandleNotifications(s0) ==
    LET s == Log(s0, "handle_notifications", <<>>, "begin")
    IN  IF Len(s.agents) = 0 THEN { Return(s, "Err") }
        ELSE IF ~ShouldCheckNotifications(s) THEN { Return(s, "Ok") }
        ELSE UNION {
               IF ~u.res.ok THEN { Return(u.st, "Err") }      \* ensure_user_id().await?
               ELSE UNION {
                      IF n.res.ok
                      THEN LET checked == [n.st EXCEPT !.last_notification_check = Some(n.st.clock)]
                               new_notifications == NewNotifications(checked, n.res.val)
                           IN  ProcessNotifications(
                                   Log(checked, "new_notifications", <<Len(new_notifications)>>, "Ok"),
                                   Take(new_notifications, 3))
                      ELSE IF Contains429(n.res.err)
                      THEN { Return([n.st EXCEPT !.last_notification_check = Some(n.st.clock),
                                                 !.hist.limited = Some(n.st.clock)], "Ok") }
                      ELSE { Return(n.st, "Err") }
                      : n \in GetNotifications(RecordFetch(u.st)) }
               : u \in EnsureUserId(s) }

(***************************************************************************)
(* Runtime::run                                                            *)
(***************************************************************************)
\* SolanaTracker::generate_fud: a template text about the token
\* "WARNING: Stay away from $" symbol " Obvious scam."
GenerateFud(token) ==
    <<"W", "A", "R", "N", "I", "N", "G", ":", " ", "S", "t", "a", "y", " ", "a", "w", "a", "y", " ", "f", "r", "o", "m", " ", "$">> \o token.symbol \o <<" ", "O", "b", "v", "i", "o", "u", "s", " ", "s", "c", "a", "m", ".">>

\* lines 201-213: tweet_content, by the coin flip
TweetContent(s) ==
    \* generate_post().await.map_err(..)?
    Prompt(s, s.env.drafts)
    \cup
    \* get_top_tokens(35).await?, then a random token and its template text
    UNION {
      IF ~t.res.ok THEN { t }
      ELSE IF Len(t.res.val) = 0
      THEN { Panicked(t.st, "cannot sample empty range") }
      ELSE { [st |-> t.st, res |-> Ok(GenerateFud(t.res.val[i]))] : i \in DOMAIN t.res.val }
      : t \in GetTopTokens(s, 35) }

\* lines 218-263: the content is posted, or only recorded
PostContent(s, tweet_content, prompt) ==
    IF s.memory.tweet_mode
    THEN UNION {
           IF p.res.ok
           THEN LET posted == [p.st EXCEPT !.last_tweet_time = Some(p.st.clock),
                                           !.hist.posts = Last2(@, p.st.clock)]
                    twitter_id == Some(IdToString(p.res.val[1]))
                IN  { Return(m, "Ok") : m \in AddToMemory(posted, tweet_content, prompt, twitter_id) }
           ELSE IF Contains429(p.res.err)
           THEN { Return(Sleep(p.st, RATE_LIMIT_SLEEP), "Ok") }
           ELSE { Return(p.st, "Err") }
           : p \in TwitterTweet(s, tweet_content) }
    ELSE { Return(m, "Ok") : m \in AddToMemory(s, tweet_content, prompt, None) }

Run(s0) ==
    LET s == Log(s0, "run", <<>>, "begin")
    IN  IF Len(s.agents) = 0 THEN { Return(s, "Err") }
        ELSE IF ~ShouldAllowTweet(s) THEN { Return(s, "Ok") }
        ELSE UNION {
               IF c.st.status = "panicked" THEN { [st |-> c.st, ret |-> "Panic"] }
               ELSE IF ~c.res.ok THEN { Return(c.st, "Err") }
               ELSE UNION { PostContent(Log(c.st, "accept", c.res.val, "Ok"),
                                        c.res.val, c.st.agents[a].prompt)
                            : a \in DOMAIN c.st.agents }
               : c \in TweetContent(s) }

(***************************************************************************)
(* Runtime::run_debug_test and Runtime::run_periodically                   *)
(***************************************************************************)
\* lines 88-98: for i in 1..=5
RECURSIVE DebugSamples(_, _, _)
DebugSamples(s, tokens, i) ==
    IF i > 5 THEN { Return(s, "Ok") }
    ELSE IF Len(tokens) = 0 THEN { Panic(s, "cannot sample empty range") }
    ELSE UNION {
           IF FormatTokenSummaryPanics(tokens[k])
           THEN { Panic(s, "called Option::unwrap() on a None value") }
           ELSE UNION { IF ~g.res.ok THEN { Return(g.st, "Err") }
                        ELSE DebugSamples(g.st, tokens, i + 1)
                        : g \in GenerateEditorializedFud(s) }
           : k \in DOMAIN tokens }

RunDebugTest(s) ==
    UNION { IF ~t.res.ok THEN { Return(t.st, "Err") }
            ELSE IF Len(t.st.agents) = 0 THEN { Panic(t.st, "index out of bounds") }
            ELSE DebugSamples(t.st, t.res.val, 1)
            : t \in GetTopTokens(s, 30) }

\* a post cycle is started by the loop at this time
RecordCycle(s) == [s EXCEPT !.hist.cycles = Last2(@, s.clock)]

\* lines 438-451: the scheduled post
ScheduledPost(s) ==
    IF ShouldRunScheduledAction(s, QuarterHourMarks)
    THEN IF ~ShouldAllowTweet(s) THEN { s }
         ELSE { r.st : r \in GenerateAndPostFud(RecordCycle(s)) }   \* Ok and Err are printed
    ELSE { s }

\* lines 453-457: the notification check
NotificationCheck(s) ==
    IF s.status = "panicked" THEN { s }
    ELSE IF ShouldCheckNotifications(s)
    THEN { r.st : r \in HandleNotificationsFud(s) }                 \* Err is printed
    ELSE { s }

\* lines 460-468: the sleep to the next second after `now`, the time the tick began
SleepToNextSecond(s, now) ==
    LET duration_until_next == NextSecond(now) - now
    IN  IF s.status = "panicked" THEN s
        ELSE IF NumMilliseconds(duration_until_next) > 0
        THEN Sleep(s, NumMilliseconds(duration_until_next))
        ELSE s

\* lines 434-469: one pass of the loop
LoopPass(s) ==
    LET now == s.clock
    IN  IF s.character = "fud"
        THEN { SleepToNextSecond(q, now)
               : q \in UNION { NotificationCheck(p) : p \in ScheduledPost(s) } }
        ELSE { SleepToNextSecond(s, now) }

(***************************************************************************)
(* The states after construction.                                          *)
(***************************************************************************)
AgentPrompt == <<"f", "u", "d">>
NoHistory ==
    [posts |-> <<>>, fetches |-> <<>>, cycles |-> <<>>, attempts |-> [w \in {} |-> 0],
     ids |-> [w \in {} |-> 0], limited |-> None, ops |-> 0]

\* Runtime::new: the fields of a new runtime, given the files it finds
Constructed(mfile, pfile) ==
    /\ agents = <<>>
    /\ memory = LoadMemory(mfile)
    /\ processed_tweets = LoadProcessedTweets(pfile)
    /\ cached_user_id = None
    /\ last_notification_check = None
    /\ last_tweet_time = None
    /\ recent_phrases = {}
    /\ character = "fud"
    /\ memory_file = mfile
    /\ processed_file = pfile
    /\ status = "new"
    /\ events = <<>>
    /\ hist = NoHistory

\* the memory files a deployment starts with: none, or one that sets the modes
StoredMemories ==
    { Some(MemoryToJson([DefaultMemory EXCEPT !.tweet_mode = tm, !.debug_mode = dm]))
      : tm \in BOOLEAN, dm \in BOOLEAN } \cup { None }

\* the collaborators as the operations of a runtime meet them, one after another
UnitEnv ==
    [latency |-> [op \in {} |-> {0}],
     trending |-> { <<>>, <<BONK>>, <<RUGME>> },
     tokens |-> { BONK },
     mentions |-> { <<>>, AllMentions },
     images |-> { "ok", "none", "unreadable" },
     drafts |-> { d \in Drafts : d[1] = "D" },
     post_ids |-> { 7 },
     disk |-> { TRUE, FALSE },
     incidents |-> MaxIncidents]

\* a request that is answered after 14 minutes
Stall == 14 * MINUTE
LoopEnv ==
    [latency |-> [op \in {"get_top_tokens", "get_notifications"} |->
                    IF op = "get_top_tokens" THEN {0, Stall} ELSE {0, 500}],
     trending |-> { <<>>, <<BONK>> },
     tokens |-> { BONK },
     mentions |-> { <<>>, <<Mention1>> },
     images |-> { "ok" },
     drafts |-> { d \in Drafts : d[1] = "D" },
     post_ids |-> { 7 },
     disk |-> { TRUE },
     incidents |-> MaxIncidents]

Init ==
    /\ \E mfile \in { f \in StoredMemories : f = None \/ Unwrap(f).tweet_mode } :
          Constructed(mfile, None)
    /\ clock = 0
    /\ env = UnitEnv

InitLoop ==
    /\ \E mfile \in StoredMemories : Constructed(mfile, None)
    /\ clock \in {500, 899500}
    /\ env = LoopEnv

\* the collaborators as the post cycles meet them
PostEnv ==
    [latency |-> [op \in {} |-> {0}],
     trending |-> { <<>>, <<BONK>> },
     tokens |-> { BONK },
     mentions |-> { <<>> },
     images |-> { "ok", "none" },
     drafts |-> { d \in Drafts : d[1] = "D" },
     post_ids |-> { 7 },
     disk |-> { TRUE, FALSE },
     incidents |-> MaxIncidents]

\* the collaborators as a window that fills up meets them: they answer at once and
\* without errors, and one draft is long
PhraseEnv ==
    [latency |-> [op \in {} |-> {0}],
     trending |-> { <<BONK>> },
     tokens |-> { BONK },
     mentions |-> { <<>> },
     images |-> { "ok" },
     drafts |-> { LongDraft },
     post_ids |-> { 7 },
     disk |-> { TRUE },
     incidents |-> 0]

\* the same collaborators with a draft that fills the window and one of a single phrase
WindowEnv == [PhraseEnv EXCEPT !.drafts = { FullDraft, ShortDraft }]

InitPhrases ==
    /\ Constructed(Some(MemoryToJson([DefaultMemory EXCEPT !.tweet_mode = TRUE])), None)
    /\ clock = 0
    /\ env \in { PhraseEnv, WindowEnv }

\* the disk as the memory store meets it
MemoryEnv ==
    [latency |-> [op \in {} |-> {0}],
     trending |-> {}, tokens |-> {}, mentions |-> {}, images |-> {}, drafts |-> {},
     post_ids |-> {},
     disk |-> { TRUE, FALSE },
     incidents |-> MaxIncidents]

InitMemory ==
    /\ Constructed(None, None)
    /\ clock = 0
    /\ env = MemoryEnv

\* the collaborators as the notification passes meet them: 0 to 4 mentions
NotifyEnv ==
    [latency |-> [op \in {} |-> {0}],
     trending |-> { <<BONK>> },
     tokens |-> { BONK },
     mentions |-> { SubSeq(AllMentions, 1, n) : n \in 0..Len(AllMentions) },
     images |-> { "ok" },
     drafts |-> { d \in Drafts : d[1] = "D" },
     post_ids |-> { 7 },
     disk |-> { TRUE, FALSE },
     incidents |-> MaxIncidents]

\* the disk takes writes (one may fail), or takes none (./storage cannot be written)
InitNotify ==
    /\ \E mfile \in { f \in StoredMemories : f # None /\ Unwrap(f).tweet_mode } :
          Constructed(mfile, None)
    /\ clock = 0
    /\ env \in { NotifyEnv, [NotifyEnv EXCEPT !.disk = { FALSE }] }

InitPost ==
    /\ \E mfile \in StoredMemories : Constructed(mfile, None)
    /\ clock = 0
    /\ env = PostEnv

(***************************************************************************)
(* The operations.                                                         *)
(***************************************************************************)
\* the log of the latest operation starts empty
Fresh(s) == [s EXCEPT !.events = <<>>]
\* a method is called: its log starts empty
Called(s) == [Fresh(s) EXCEPT !.hist.ops = @ + 1]
Alive == status \in {"new", "running"}
InBounds == clock < MaxClock /\ Len(memory.tweets) < MaxTweets /\ hist.ops < MaxOps

\* Runtime::add_agent
AddAgent ==
    /\ Alive /\ Len(agents) < MaxAgents
    /\ Become([Fresh(Cur) EXCEPT !.agents = Append(@, NewAgent(AgentPrompt))])

CallRun ==
    /\ Alive /\ InBounds
    /\ \E r \in Run(Called(Cur)) : Become(r.st)

CallGenerateAndPostFud ==
    /\ Alive /\ InBounds
    /\ \E r \in GenerateAndPostFud(Called(Cur)) : Become(r.st)

CallHandleNotificationsFud ==
    /\ Alive /\ InBounds
    /\ \E r \in HandleNotificationsFud(Called(Cur)) : Become(r.st)

CallHandleNotifications ==
    /\ Alive /\ InBounds
    /\ \E r \in HandleNotifications(Called(Cur)) : Become(r.st)

\* time passes between two operations
Advance ==
    /\ Alive /\ clock < MaxClock
    /\ Become([Fresh(Cur) EXCEPT !.clock = @ + COOLDOWN_MINUTES * MINUTE])

\* the process ends (killed, or panicked) and is started again: Runtime::new
Restart ==
    /\ status # "new"
    /\ Become([Fresh(Cur) EXCEPT !.agents = <<>>,
                                 !.memory = LoadMemory(memory_file),
                                 !.processed_tweets = LoadProcessedTweets(processed_file),
                                 !.cached_user_id = None,
                                 !.last_notification_check = None,
                                 !.last_tweet_time = None,
                                 !.recent_phrases = {},
                                 !.status = "new"])

Next ==
    \/ AddAgent
    \/ CallRun
    \/ CallGenerateAndPostFud
    \/ CallHandleNotificationsFud
    \/ CallHandleNotifications
    \/ Advance
    \/ Restart

Spec == Init /\ [][Next]_vars

\* the diagnostic run is wanted whatever tweet_mode is
DebugModeAlone(s) == s.memory.debug_mode
\* run_periodically: if self.memory.debug_mode && !self.memory.tweet_mode
DebugTestWanted(s) == s.memory.debug_mode /\ ~s.memory.tweet_mode

\* main: add_agent, then run_periodically up to its loop (lines 413-431)
StartLoop ==
    /\ status = "new"
    /\ LET s == [Fresh(Cur) EXCEPT !.agents = Append(@, NewAgent(AgentPrompt))]
       IN  IF DebugTestWanted(s)
           THEN \E r \in RunDebugTest(Log(s, "run_debug_test", <<>>, "begin")) :
                   Become([r.st EXCEPT !.status = IF r.ret = "Panic" THEN "panicked" ELSE "exited"])
           ELSE Become([s EXCEPT !.status = "running"])

\* one pass of the loop of run_periodically
Tick ==
    /\ status = "running" /\ clock < MaxClock
    /\ \E s \in LoopPass(Fresh(Cur)) : Become(s)

NextLoop ==
    \/ StartLoop
    \/ Tick

SpecLoop == InitLoop /\ [][NextLoop]_vars

(***************************************************************************)
(* SolanaTracker::find_token_by_symbol.  A TokenResponse is here its       *)
(* symbol, its mint and the usd liquidity of each of its pools; the        *)
(* liquidities come out of JSON numbers, so any two of them compare.       *)
(***************************************************************************)
\* the first of the matching tokens is taken
FirstOfMatching(matching) == matching[1]
\* Iterator::max_by with the comparator of lines 307-316: the maximum is replaced by
\* every later element that does not compare less, pools.first() counting as 0.0
\* when there is no pool
RECURSIVE MaxByLiquidity(_)
MaxByLiquidity(matching) ==
    LET usd(tk) == IF tk.pools = <<>> THEN 0 ELSE Head(tk.pools)
    IN  IF Len(matching) = 1 THEN matching[1]
        ELSE LET best == MaxByLiquidity(SubSeq(matching, 1, Len(matching) - 1))
                 last == matching[Len(matching)]
             IN  IF usd(best) > usd(last) THEN best ELSE last
\* lines 288-317
FindTokenBySymbol(tokens, symbol) ==
    LET eq_ignore_ascii_case(a, b) ==
            /\ Len(a) = Len(b)
            /\ \A i \in DOMAIN a : LowerChar(a[i]) = LowerChar(b[i])
        matching_tokens == SelectSeq(tokens, LAMBDA tk : eq_ignore_ascii_case(tk.symbol, symbol))
    IN  IF matching_tokens = <<>> THEN None
        ELSE IF Len(matching_tokens) = 1 THEN Some(matching_tokens[1])
        ELSE Some(MaxByLiquidity(matching_tokens))

\* the tokens of a search result: two symbols in three spellings, pools none to two
MaxListed == 3
ListedTokens ==
    { [symbol |-> <<"T", "E", "S", "T">>, mint |-> 1, pools |-> <<1000>>],
      [symbol |-> <<"t", "e", "s", "t">>, mint |-> 2, pools |-> <<5000, 9000>>],
      [symbol |-> <<"T", "e", "s", "t">>, mint |-> 3, pools |-> <<>>],
      [symbol |-> <<"T", "E", "S", "T">>, mint |-> 4, pools |-> <<0>>],
      [symbol |-> <<"W", "I", "F">>, mint |-> 5, pools |-> <<7000>>] }
TokenLists == UNION { [1..n -> ListedTokens] : n \in 0..MaxListed }
SearchedSymbols == { <<"T", "E", "S", "T">>, <<"t", "e", "s", "t">>, <<"w", "i", "f">>, <<"N", "O", "N", "E">> }

\* find_token_by_symbol(tokens, symbol): the call and what it returned; the function
\* reads nothing but its arguments, one call from the first state shows each case
CallFindTokenBySymbol ==
    /\ Alive /\ events = <<>>
    /\ \E tokens \in TokenLists, symbol \in SearchedSymbols :
          Become([Fresh(Cur) EXCEPT !.events =
                    << [Event("find_token_by_symbol", <<tokens, symbol>>, clock, "Ok")
                          EXCEPT !.val = <<FindTokenBySymbol(tokens, symbol)>>] >>])

SpecTokens == InitMemory /\ [][CallFindTokenBySymbol]_vars

\* the generator as an agent alone meets it: three drafts, one of them repeating a
\* word of another
AgentEnv ==
    [latency |-> [op \in {} |-> {0}],
     trending |-> {}, tokens |-> {}, mentions |-> {}, images |-> {},
     drafts |-> Drafts \cup { RepeatingDraft },
     post_ids |-> {},
     disk |-> { TRUE },
     incidents |-> MaxIncidents]

InitAgent ==
    /\ Constructed(None, None)
    /\ clock = 0
    /\ env = AgentEnv

\* agents[0].generate_editorialized_fud(token_summary): the call and what it returned
CallGenerateEditorializedFud ==
    /\ Alive /\ InBounds /\ Len(agents) > 0
    /\ \E r \in GenerateEditorializedFud(Log(Called(Cur), "generate_editorialized_fud", <<>>, "begin")) :
          Become([r.st EXCEPT !.events =
                     Append(@, [Event("return", <<>>, r.st.clock, IF r.res.ok THEN "Ok" ELSE r.res.err)
                                  EXCEPT !.val = r.res.val])])

\* an agent alone: its calls of the generator and its frequency analysis
NextAgent ==
    \/ AddAgent
    \/ CallGenerateEditorializedFud
    \/ Advance

SpecAgent == InitAgent /\ [][NextAgent]_vars

\* Runtime::contains_recent_phrase, on a draft of the generator or on a part of one
CallContainsRecentPhrase ==
    /\ Alive /\ InBounds
    /\ \E text \in env.drafts \cup { ShortDraft } :
          \E r \in ContainsRecentPhrase(Called(Cur), text) : Become(r.st)

\* the post cycles alone: run and generate_and_post_fud, called one after another
NextPost ==
    \/ AddAgent
    \/ CallRun
    \/ CallGenerateAndPostFud
    \/ CallContainsRecentPhrase
    \/ Advance
    \/ Restart

SpecPost == InitPost /\ [][NextPost]_vars

\* the notification passes alone
NextNotify ==
    \/ AddAgent
    \/ CallHandleNotificationsFud
    \/ CallHandleNotifications
    \/ Advance

SpecNotify == InitNotify /\ [][NextNotify]_vars

CallAddToMemory ==
    /\ Len(memory.tweets) < MaxTweets
    /\ \E text \in Drafts, twitter_id \in { None, Some(IdToString(7)) } :
          \E s \in AddToMemory(Fresh(Cur), text, AgentPrompt, twitter_id) : Become(s)

CallAddReplyToMemory ==
    /\ Len(memory.tweets) < MaxTweets
    /\ \E text \in Drafts, reply_to \in { IdToString(Mention1.id), IdToString(Mention2.id) } :
          \E s \in AddReplyToMemory(Fresh(Cur), text, AgentPrompt, None, reply_to) : Become(s)

\* the process is started again: Runtime::new loads the memory and the processed ids
\* from their files
Reload ==
    /\ Alive
    /\ Become([Fresh(Cur) EXCEPT !.memory = LoadMemory(memory_file),
                                 !.processed_tweets = LoadProcessedTweets(processed_file)])

\* the memory store alone: appends, each with its save, and restarts
NextMemory ==
    \/ CallAddToMemory
    \/ CallAddReplyToMemory
    \/ Reload

SpecMemory == InitMemory /\ [][NextMemory]_vars

\* MemoryStore::save_processed_tweets(S), for every set S of the ids of the mentions
CallSaveProcessedTweets ==
    /\ Alive
    /\ \E S \in SUBSET { IdToString(AllMentions[i].id) : i \in DOMAIN AllMentions } :
          \E w \in SaveProcessedTweets([Fresh(Cur) EXCEPT !.processed_tweets = S]) : Become(w.st)

\* the store of the processed ids alone: writes of the file, and restarts
NextProcessed ==
    \/ CallSaveProcessedTweets
    \/ Reload

SpecProcessed == InitMemory /\ [][NextProcessed]_vars

\* the two updates of the phrase window, on texts short and long
NextPhrases ==
    \/ AddAgent
    \/ CallGenerateAndPostFud
    \/ CallContainsRecentPhrase

SpecPhrases == InitPhrases /\ [][NextPhrases]_vars

(***************************************************************************)
(* The properties.  events is the log of the latest operation; hist keeps  *)
(* what earlier operations did.                                            *)
(***************************************************************************)
SubmissionOps == {"tweet", "tweet_with_image", "upload_bytes", "reply_to_tweet"}
PostOps == {"tweet", "tweet_with_image"}
\* the entries of the log of the latest operation that are calls of ops
Calls(ops) == { i \in DOMAIN events : events[i].op \in ops }
\* the latest operation is one of these methods, and it has returned
Returned(methods) ==
    /\ events # <<>>
    /\ events[1].op \in methods
    /\ events[Len(events)].op = "return"
NonDebug == ~(memory.debug_mode /\ ~memory.tweet_mode)

\* C1: any two original posts the platform accepted from the post cycle are at
\* least 5 minutes apart, however long the calls of the first cycle took
C1_PostsFiveMinutesApart ==
    Len(hist.posts) = 2 => hist.posts[2] - hist.posts[1] >= COOLDOWN_MINUTES * MINUTE

C3_FetchesFiveMinutesApart ==
    Len(hist.fetches) = 2 => hist.fetches[2] - hist.fetches[1] >= COOLDOWN_MINUTES * MINUTE

\* C4: for an inbound id at most one reply is ever submitted, over all passes and restarts
C4_OneReplyPerMention ==
    \A id \in DOMAIN hist.attempts : hist.attempts[id] <= 1

\* C5: outside debug mode the loop never ends and never panics, whatever the
\* collaborators answer
C5_LoopNeverEnds ==
    NonDebug => status \in {"new", "running"}

\* C6: when the trending list is empty the post cycle submits nothing and returns
\* without a fatal error
C6_EmptyTrendingListIsHarmless ==
    (\E i \in Calls({"get_top_tokens"}) : events[i].res = "Ok" /\ events[i].val = <<>>)
       => /\ status # "panicked"
          /\ Calls({"panic"}) = {}
          /\ Calls(SubmissionOps) = {}

\* C7: with tweet_mode false no method makes a submission call
C7_NoSubmissionWithoutTweetMode ==
    ~memory.tweet_mode => Calls(SubmissionOps) = {}

\* C8: with tweet_mode false a post cycle that accepts a draft appends exactly one
\* Original record, and a mention for which a reply text was made gets exactly one
\* Reply record
C8_DryRunRecords ==
    ~memory.tweet_mode =>
       /\ Cardinality(Calls({"add_to_memory"})) = Cardinality(Calls({"accept"}))
       /\ \A i \in Calls({"reply_text"}) :
             Cardinality({ j \in Calls({"add_reply_to_memory"}) : events[j].res = events[i].res }) = 1

\* C9: with tweet_mode true, when the platform has accepted an original post, the
\* memory has gained exactly one Original record that carries the platform's id,
\* and last_tweet_time is set
C9_PostIsRecorded ==
    (memory.tweet_mode /\ Returned({"run", "generate_and_post_fud"})) =>
       \A i \in Calls(PostOps) :
          events[i].res = "Ok" =>
             /\ Cardinality(Calls({"add_to_memory"})) = 1
             /\ memory.tweets # <<>>
             /\ memory.tweets[Len(memory.tweets)].tweet_type = "Original"
             /\ memory.tweets[Len(memory.tweets)].twitter_id = Some(IdToString(events[i].val[1]))
             /\ IsSome(last_tweet_time)

\* the cap of a pass: notifications_to_process holds at most this many mentions
PassCap == 3
\* the mentions a later pass of the method would still take up
StillOpen(method, fetched) ==
    IF method = "handle_notifications" THEN NewNotifications(Cur, fetched)
    ELSE Unresponded(Cur, fetched)
\* C10: a pass that finds more unprocessed mentions than the cap takes up exactly
\* the cap, and when it returns no mention of that fetch is open to a later pass
C10_PassClosesItsFetch ==
    Returned({"handle_notifications", "handle_notifications_fud"}) =>
       \A i \in Calls({"new_notifications", "unresponded"}) :
          events[i].arg[1] > PassCap =>
             /\ Cardinality(Calls({"process"})) = PassCap
             /\ \A f \in Calls({"get_notifications"}) :
                   StillOpen(events[1].op, events[f].val) = <<>>

\* C11: one call of generate_and_post_fud asks the generator for at most
\* MAX_ATTEMPTS drafts, so the draft it accepts is one of the first MAX_ATTEMPTS
C11_AtMostThreeDrafts ==
    (events # <<>> /\ events[1].op = "generate_and_post_fud") =>
       Cardinality(Calls({"draft"})) <= MAX_ATTEMPTS
\* C12: after every update of the window (contains_recent_phrase, or the update in
\* generate_and_post_fud) it holds at most max_recent_phrases phrases, also when
\* one text alone brings more phrases than that
C12_WindowWithinLimit ==
    Cardinality(recent_phrases) <= MAX_RECENT_PHRASES
\* the long text was cut on entry, and the window was cut again for a later text
C12_WindowCutTwice ==
    /\ Cardinality(Phrases(LongDraft)) > MAX_RECENT_PHRASES
    /\ Cardinality(recent_phrases) = MAX_RECENT_PHRASES
    /\ Phrases(ShortDraft) \subseteq recent_phrases
    /\ Cardinality(Phrases(LongDraft) \ recent_phrases) >= 2
\* C13: a post cycle (run or generate_and_post_fud) whose submission of the post
\* fails with a 429 sleeps the 15 minutes of RATE_LIMIT_SLEEP before it returns,
\* and returns Ok
C13_RateLimitedPostSleeps ==
    Returned({"run", "generate_and_post_fud"}) =>
       \A i \in Calls(PostOps) :
          events[i].res = RateLimitError =>
             /\ \E j \in Calls({"sleep"}) : j > i /\ events[j].arg = <<RATE_LIMIT_SLEEP>>
             /\ events[Len(events)].res = "Ok"
\* the latest step was a post cycle in which the platform accepted no post
NoPostAccepted ==
    /\ events' # <<>>
    /\ events'[1].op \in {"run", "generate_and_post_fud"}
    /\ \A i \in DOMAIN events' : ~(events'[i].op \in PostOps /\ events'[i].res = "Ok")
\* C14: a post cycle in which no submission succeeded (it failed, or none was
\* made) leaves last_tweet_time as it was
C14_LastTweetTimeKept ==
    [][NoPostAccepted => last_tweet_time' = last_tweet_time]_vars
\* a cycle whose submission was refused has returned, after an earlier one had set
\* last_tweet_time
C14_RefusedAfterAccepted ==
    /\ Returned({"run", "generate_and_post_fud"})
    /\ \E i \in Calls(PostOps) : events[i].res # "Ok"
    /\ \A i \in Calls(PostOps) : events[i].res # "Ok"
    /\ IsSome(last_tweet_time)
\* C15: no internal_id is given to two posts, over all appends and all restarts,
\* also when a save had failed before the restart
C15_InternalIdsNeverReused ==
    \A id \in DOMAIN hist.ids : hist.ids[id] <= 1

\* the largest internal_id of a list of posts
MaxInternalId(tweets) ==
    CHOOSE n \in { tweets[i].internal_id : i \in DOMAIN tweets } :
       \A i \in DOMAIN tweets : tweets[i].internal_id <= n
\* the latest append has written the memory to its file
Saved ==
    /\ events # <<>>
    /\ events[Len(events)].op = "save_memory"
    /\ events[Len(events)].res = "Ok"
\* C16: when appends are followed by a save that succeeds, load_memory returns the
\* posts that were saved, and a next_id that is 1 + the largest internal_id among them
C16_SaveLoadRoundTrip ==
    Saved =>
       LET loaded == LoadMemory(memory_file)
       IN  /\ loaded.tweets = memory.tweets
           /\ loaded.next_id = 1 + MaxInternalId(loaded.tweets)
\* a post and a reply were appended and saved
C16_SavedPostAndReply ==
    /\ Saved
    /\ \E i, j \in DOMAIN memory.tweets :
          /\ memory.tweets[i].tweet_type = "Original" /\ IsSome(memory.tweets[i].twitter_id)
          /\ memory.tweets[j].tweet_type = "Reply"
    /\ Len(LoadMemory(memory_file).tweets) >= 2
\* C17: a post cycle changes the phrase window only when tweet_mode is true and the
\* platform accepted the draft
C17_WindowChangesOnlyWithPost ==
    [][(/\ events' # <<>>
        /\ events'[1].op \in {"run", "generate_and_post_fud"}
        /\ recent_phrases' # recent_phrases)
       => /\ memory.tweet_mode
          /\ \E i \in DOMAIN events' : events'[i].op \in PostOps /\ events'[i].res = "Ok"]_vars
NotificationPasses == {"handle_notifications", "handle_notifications_fud"}
\* the reply records the pass appended are in these posts
RepliesIn(tweets) ==
    \A j \in Calls({"add_reply_to_memory"}) :
       \E k \in DOMAIN tweets : tweets[k].reply_to = Some(events[j].res)
\* the mentions handle_notifications was through with before the last one it took up
\* are in this set of processed ids
ProcessedIn(ids) ==
    events[1].op = "handle_notifications" =>
       \A j \in Calls({"process"}) :
          (\E l \in Calls({"process"}) : l > j) => events[j].arg \in ids
\* no further mention is taken up or answered after the reply at i
BatchEndsAt(i) == \A j \in Calls({"process", "reply_to_tweet"}) : j <= i
\* every write of the pass to the two files succeeded
AllWritten ==
    \A j \in Calls({"save_memory", "save_processed_tweets"}) : events[j].res = "Ok"

C19_RepliesThirtySecondsApart ==
    \A i, j \in Calls({"reply_to_tweet"}) :
       i < j => events[j].at - events[i].at >= REPLY_DELAY

\* C20: a pass of handle_notifications_fud selects min(n, 3) of the n unresponded
\* mentions, all distinct and all of that list - all of them when n <= 3 - and
\* submits at most 3 replies
C20_SelectionWithinCap ==
    \A i \in Calls({"selected"}) :
       LET selected == events[i].arg
           unresponded == events[i - 1].val
       IN  /\ Len(selected) = Min(Len(unresponded), PassCap)
           /\ \A a, b \in DOMAIN selected : a # b => selected[a] # selected[b]
           /\ Range(selected) \subseteq Range(unresponded)
           /\ Len(unresponded) <= PassCap => Range(selected) = Range(unresponded)
           /\ Cardinality(Calls({"reply_to_tweet"})) <= PassCap
\* four mentions were unresponded, and the pass has answered three of them
C20_ThreeOfFourAnswered ==
    /\ Returned({"handle_notifications_fud"})
    /\ \E i \in Calls({"selected"}) : Len(events[i - 1].val) > PassCap
    /\ Cardinality(Calls({"reply_to_tweet"})) = PassCap

\* C21: while the loop of run_periodically runs, the pass after a pass begins in the
\* wall-clock second that follows the second the pass began in: no second has two
\* passes and none is left out
C21_OneTickPerSecond ==
    [][(status = "running" /\ status' = "running") =>
          clock' \div SECOND = (clock \div SECOND) + 1]_vars

\* the quarter-hour marks of the hours the clock runs through
MarkTimes == { m \in 0..MaxClock : m % (15 * MINUTE) = 0 }
\* the cooldown of should_allow_tweet has elapsed at time t
CooldownElapsedAt(last, t) ==
    IsSome(last) => t - Unwrap(last) >= COOLDOWN_MINUTES * MINUTE

\* C28 as stated: with debug_mode set at startup run_periodically makes the diagnostic
\* run and returns without entering its loop, whatever tweet_mode is; with debug_mode
\* not set it enters the loop and makes no diagnostic run
C28_DebugModeSkipsLoop ==
    /\ (memory.debug_mode /\ status # "new") =>
          /\ status \in {"exited", "panicked"}
          /\ events # <<>> /\ events[1].op = "run_debug_test"
    /\ (~memory.debug_mode /\ status # "new") =>
          /\ status \in {"running", "panicked"}
          /\ Calls({"run_debug_test"}) = {}
\* C28 amended: with debug_mode set and tweet_mode not set at startup run_periodically
\* makes the diagnostic run and returns without entering its loop; otherwise it enters
\* the loop and makes no diagnostic run
C28_DebugWithoutTweetModeSkipsLoop ==
    /\ (memory.debug_mode /\ ~memory.tweet_mode /\ status # "new") =>
          /\ status \in {"exited", "panicked"}
          /\ events # <<>> /\ events[1].op = "run_debug_test"
    /\ (~(memory.debug_mode /\ ~memory.tweet_mode) /\ status # "new") =>
          /\ status \in {"running", "panicked"}
          /\ Calls({"run_debug_test"}) = {}
\* the diagnostic run was made and run_periodically has returned
C28_DiagnosticRunReturned ==
    /\ status = "exited"
    /\ memory.debug_mode /\ ~memory.tweet_mode
    /\ Calls({"run_debug_test"}) # {}

\* C30: the second of a quarter-hour mark at which the cooldown has elapsed does not
\* go by between the beginning of a pass of the loop and the beginning of the next
C30_NoMarkPassedOver ==
    [][(status = "running" /\ status' = "running") =>
          \A m \in MarkTimes :
             ~ /\ clock < m /\ clock' >= m + SECOND
               /\ CooldownElapsedAt(last_tweet_time, m)
               /\ CooldownElapsedAt(last_tweet_time', m)]_vars

\* C22: the account id is fetched when an operation first needs it and is kept for the
\* life of the process: an operation calls get_user_id at most once and only while
\* nothing is cached, and once an id is cached no operation of the process fetches
\* again or changes it
C22_UserIdFetchedOnce ==
    [][Alive =>
          /\ Cardinality({ i \in DOMAIN events' : events'[i].op = "get_user_id" }) <=
                IF IsSome(cached_user_id) THEN 0 ELSE 1
          /\ IsSome(cached_user_id) => cached_user_id' = cached_user_id
          /\ (cached_user_id' # cached_user_id) =>
                \E i \in DOMAIN events' :
                   /\ events'[i].op = "get_user_id" /\ events'[i].res = "Ok"
                   /\ cached_user_id' = Some(events'[i].val[1])]_vars
\* an operation after the one that cached the id went on to the platform without
\* fetching the id again
C22_SecondUseOfCachedId ==
    /\ IsSome(cached_user_id)
    /\ Calls({"get_user_id"}) = {}
    /\ Calls({"get_notifications", "tweet", "tweet_with_image"}) # {}

\* C23: an operation that returns right after a write of the memory file or of the
\* processed-notification file has failed returns Ok: the failed write is not made
\* the operation's own failure
C23_WriteFailureSwallowed ==
    \A i \in Calls({"save_memory", "save_processed_tweets"}) :
       (events[i].res = "Err" /\ i < Len(events) /\ events[i + 1].op = "return") =>
          events[i + 1].res = "Ok"

\* C24: when a notification pass has returned, every mention it answered is in the set
\* of processed ids and in the processed-notification file, the writes of the pass
\* having succeeded
C24_HandledIdsRecorded ==
    (Returned(NotificationPasses) /\ AllWritten) =>
       \A i \in Calls({"reply_to_tweet"}) :
          events[i].res = "Ok" =>
             /\ events[i].arg[1] \in processed_tweets
             /\ events[i].arg[1] \in LoadProcessedTweets(processed_file)

\* C25: an id that is in the set of processed ids, or in the processed-notification
\* file, is still there after every step: a notification pass, a write of the file,
\* or the end of the process and its restart from the file
C25_ProcessedIdsOnlyGrow ==
    [][/\ processed_tweets \subseteq processed_tweets'
       /\ LoadProcessedTweets(processed_file) \subseteq LoadProcessedTweets(processed_file')]_vars

C27_CheckRecordsPhrases ==
    (/\ Returned({"contains_recent_phrase"})
     /\ Cardinality(recent_phrases \cup Phrases(events[1].arg)) <= MAX_RECENT_PHRASES)
    => Phrases(events[1].arg) \subseteq recent_phrases

\* the usd liquidity of a token's first pool, 0 for a token without pools
FirstPoolLiquidity(tk) == IF Len(tk.pools) = 0 THEN 0 ELSE tk.pools[1]
C31_EmptyPoolsIsHarmless ==
    (/\ events # <<>> /\ events[1].op = "generate_and_post_fud"
     /\ Len(agents) > 0
     /\ \E i \in Calls({"get_top_tokens"}) :
           /\ events[i].res = "Ok" /\ events[i].val # <<>>
           /\ \A k \in DOMAIN events[i].val : events[i].val[k].pools = 0)
    => /\ status # "panicked"
       /\ Calls({"panic"}) = {}
       /\ events[Len(events)].op = "return"

\* C32: a fetch of the notifications that follows one the platform answered with a
\* 429 is made 15 minutes after that answer at the earliest
C32_RateLimitedFetchWaits ==
    IsSome(hist.limited) =>
       \A i \in DOMAIN hist.fetches :
          hist.fetches[i] > Unwrap(hist.limited) =>
             hist.fetches[i] - Unwrap(hist.limited) >= 15 * MINUTE

\* C33: a record of the memory that carries a twitter_id carries the id the platform
\* gave to a post of the bot: never the id of the mention it answers, and no id at all
\* while tweet_mode is false
C33_ExternalIdIsOwnPost ==
    \A k \in DOMAIN memory.tweets :
       LET tweet == memory.tweets[k]
       IN  IsSome(tweet.twitter_id) =>
              /\ memory.tweet_mode
              /\ tweet.twitter_id # tweet.reply_to
              /\ \E id \in env.post_ids : tweet.twitter_id = Some(IdToString(id))

\* C34: one call of generate_editorialized_fud asks the generator at most 3 times;
\* when every draft came back it returns the last of them - the third also when it is
\* still overused - and never the error of having found nothing unique, and the
\* analysis has taken in the returned draft once and no other draft
C34_ThreeDraftsAtMost ==
    [][(events' # <<>> /\ events'[1].op = "generate_editorialized_fud") =>
          LET log == events'
              prompts == { i \in DOMAIN log : log[i].op = "prompt" }
              last == log[Len(log)]
          IN  /\ Cardinality(prompts) <= 3
              /\ last.op = "return"
              /\ last.res # "Failed to generate unique FUD content"
              /\ (\A i \in prompts : log[i].res = "Ok") =>
                    /\ last.res = "Ok"
                    /\ last.val = log[Len(log) - 1].val
                    /\ \A i \in prompts :
                          i < Len(log) - 1 => IsOverused(agents[1].fud_analysis, log[i].val)
                    /\ (Cardinality(prompts) < 3) =>
                          ~IsOverused(agents[1].fud_analysis, last.val)
                    /\ agents'[1].fud_analysis = FudUpdate(agents[1].fud_analysis, last.val)
              /\ last.res # "Ok" => agents'[1].fud_analysis = agents[1].fud_analysis]_vars
\* the generator was asked three times, every draft was overused, and the third was
\* returned
C34_ThirdDraftReturned ==
    /\ events # <<>> /\ events[1].op = "generate_editorialized_fud"
    /\ Cardinality(Calls({"prompt"})) = 3
    /\ events[Len(events)].res = "Ok"
    /\ events[Len(events)].val = RepeatingDraft
    /\ \E i \in Calls({"prompt"}) : events[i].val # RepeatingDraft

\* C36: a text the analysis of an agent calls overused is still called overused after
\* every later step of the process
C36_OverusedStaysOverused ==
    [][(agents # <<>> /\ agents' # <<>>) =>
          \A text \in env.drafts :
             IsOverused(agents[1].fud_analysis, text) => IsOverused(agents'[1].fud_analysis, text)]_vars
\* a draft was rejected as overused, another draft was then taken into the analysis,
\* and the rejected one is still overused
C36_OverusedAfterUpdate ==
    /\ events # <<>> /\ events[1].op = "generate_editorialized_fud"
    /\ events[Len(events)].res = "Ok"
    /\ \E i \in Calls({"prompt"}) :
          /\ events[i].val # events[Len(events)].val
          /\ IsOverused(agents[1].fud_analysis, events[i].val)
          /\ ~IsOverused(agents[1].fud_analysis, events[Len(events)].val)

\* C35: when a post cycle with tweet_mode true has posted the draft it accepted, a
\* draft of at least one 3-word phrase, a phrase of that draft is in the window it
\* leaves, so that the check of the next cycle flags the same text as a repeat
C35_PostedDraftStaysInWindow ==
    (Returned({"generate_and_post_fud"}) /\ memory.tweet_mode) =>
       \A i \in Calls({"accept"}) :
          (/\ Phrases(events[i].arg) # {}
           /\ \E j \in Calls(PostOps) : events[j].res = "Ok")
          => Phrases(events[i].arg) \cap recent_phrases # {}

\* the text names a topic: a word that is an address, or a ticker after a "$"
HasTopicReference(text) ==
    \E w \in Range(SplitWhitespace(text)) :
       IsSolanaAddress(w) \/ (Len(w) > 1 /\ w[1] = "$" /\ w[2] \in AsciiAlphanumeric)
\* C37: for a mention whose text names a topic, the first thing handle_notifications_fud
\* does on taking it up is the lookup of the token, by address or by symbol search
C37_TopicReferenceIsLookedUp ==
    (events # <<>> /\ events[1].op = "handle_notifications_fud") =>
       \A i \in Calls({"process"}) :
          \A k \in DOMAIN AllMentions :
             (/\ IdToString(AllMentions[k].id) = events[i].arg
              /\ HasTopicReference(AllMentions[k].text))
             => /\ i < Len(events)
                /\ events[i + 1].op \in {"token_search", "get_token_by_address"}

\* C38: with tweet_mode true, a post cycle that has accepted a draft and whose calls
\* of the platform were all answered Ok has submitted the draft exactly once, as a
\* plain post or as a post with an image
C38_OneSubmissionPerDraft ==
    (/\ Returned({"generate_and_post_fud"}) /\ memory.tweet_mode
     /\ Calls({"accept"}) # {}
     /\ \A i \in DOMAIN events : events[i].res \notin {OtherError, RateLimitError})
    => Cardinality(Calls(PostOps)) = 1
====
